---- MODULE Spec2Model ----
(***************************************************************************)
(* Terminal control ops of cli/ops/tty.rs: op_set_raw (both build          *)
(* variants, #[cfg(unix)] and #[cfg(windows)]), op_isatty and              *)
(* op_console_size, acting on the shared resource table and on the         *)
(* terminal devices behind the descriptors.                                *)
(*                                                                         *)
(* An Option<T> is modelled as a set with at most one element:             *)
(* None == {} and Some(x) == {x}.                                          *)
(***************************************************************************)
EXTENDS Integers, Sequences, FiniteSets, TLC

VARIABLES
  platform,        \* build variant: "unix" or "windows" (compile-time cfg)
  unstable,        \* the process-level unstable gate (State::check_unstable)
  resource_table,  \* rid -> StreamResourceHolder.resource
  inflight,        \* rid -> Option<(file, metadata)> held by an in-flight async op
  term,            \* terminal device -> its current mode (kernel / console state)
  last,            \* the most recent call: arguments, outcome, syscalls, state before it
  hist             \* history of the run: initial modes and what set_raw calls did

vars == <<platform, unstable, resource_table, inflight, term, last, hist>>

-----------------------------------------------------------------------------
(* Option<T> *)

None == {}

Some(x) == {x}

is_some(o) == o # {}

unwrap(o) == CHOOSE x \in o : TRUE

-----------------------------------------------------------------------------
(* Devices behind the descriptors.  "tty" is a terminal; "file" is a       *)
(* regular file, on which every terminal syscall fails.                    *)

Terminals == {"tty"}

Files == {"tty", "file"}

\* the device the process's standard input refers to
StdinDev == "tty"

\* the window size of each terminal
WinSize == [t \in Terminals |-> [columns |-> 80, rows |-> 24]]

-----------------------------------------------------------------------------
(* POSIX terminal modes (nix::sys::termios::Termios): three flag words as  *)
(* sets of flag names and the control-character array.  CS8 is the value   *)
(* of the two-bit CSIZE field with both bits set.                          *)

RawInputFlags == {"BRKINT", "ICRNL", "INPCK", "ISTRIP", "IXON"}

CS8 == {"CSIZE0", "CSIZE1"}

RawLocalFlags == {"ECHO", "ICANON", "IEXTEN", "ISIG"}

make_raw_keep_iexten(original_mode) ==
  \* variant that leaves IEXTEN and VTIME as captured
  [original_mode EXCEPT
     !.input_flags = @ \ RawInputFlags,
     !.control_flags = @ \cup CS8,
     !.local_flags = @ \ (RawLocalFlags \ {"IEXTEN"}),
     !.control_chars = [@ EXCEPT !.VMIN = 1]]

\* lines 171-188: the raw variant of a captured mode
make_raw(original_mode) ==
  [original_mode EXCEPT
     !.input_flags = @ \ RawInputFlags,
     !.control_flags = @ \cup CS8,
     !.local_flags = @ \ RawLocalFlags,
     !.control_chars = [@ EXCEPT !.VMIN = 1, !.VTIME = 0]]

\* modes a POSIX terminal may be in when the program starts
UnixInitModes ==
  { [input_flags |-> {"BRKINT", "ICRNL", "IXON", "IUTF8"},
     control_flags |-> {"CSIZE0", "CSIZE1", "CREAD"},
     local_flags |-> {"ECHO", "ICANON", "IEXTEN", "ISIG", "ECHOE"},
     control_chars |-> [VMIN |-> 1, VTIME |-> 0, VINTR |-> 3]],
    [input_flags |-> {"ICRNL", "ISTRIP"},
     control_flags |-> {"CSIZE1", "PARENB"},
     local_flags |-> {"ICANON", "ISIG", "ECHOE"},
     control_chars |-> [VMIN |-> 4, VTIME |-> 2, VINTR |-> 3]] }

(* Windows console modes (DWORD bit mask) as sets of flag names.           *)

\* lines 20-22
RAW_MODE_MASK ==
  {"ENABLE_LINE_INPUT", "ENABLE_ECHO_INPUT", "ENABLE_PROCESSED_INPUT"}

\* modes a Windows console may be in when the program starts
WindowsInitModes ==
  { {"ENABLE_LINE_INPUT", "ENABLE_ECHO_INPUT", "ENABLE_PROCESSED_INPUT",
     "ENABLE_MOUSE_INPUT"},
    {"ENABLE_LINE_INPUT", "ENABLE_PROCESSED_INPUT", "ENABLE_INSERT_MODE"} }

-----------------------------------------------------------------------------
(* The resource table.  A resource is a record                             *)
(*   kind : "Stdin" | "FsFile" | "Other"                                   *)
(*   mode : Option<mode>           Stdin's metadata.mode                   *)
(*   slot : Option<[file, mode]>   FsFile's Option<(File, FileMetadata)>,  *)
(*                                 the metadata being metadata.tty.mode    *)

Stdin(mode) == [kind |-> "Stdin", mode |-> mode, slot |-> None]

FsFile(slot) == [kind |-> "FsFile", mode |-> None, slot |-> slot]

Other == [kind |-> "Other", mode |-> None, slot |-> None]

\* the resources of the run, the open file being on device `file`;
\* rid 3 is in no table
InitTable(file) ==
  (0 :> Stdin(None))
  @@ (1 :> FsFile(Some([file |-> file, mode |-> None])))
  @@ (2 :> Other)

Rids == {0, 1, 2}

\* the rid arguments a caller may pass
RidArgs == {0, 1, 2, 3}

\* the OS handle values a Windows descriptor may turn out to have
Handles == {"valid", "invalid", "null"}


-----------------------------------------------------------------------------
(* Outcome of one op: the table and terminals after it, the result         *)
(* returned to the caller ("Ok" or the error's name), the value of a       *)
(* query, and the platform syscalls performed, in order.                   *)

NoSize == [columns |-> 0, rows |-> 0]

Ret(table, tm, result, sys) ==
  [table |-> table, term |-> tm, result |-> result,
   isatty |-> FALSE, size |-> NoSize, sys |-> sys]

SysLog(call, dev, ok, mode) ==
  [call |-> call, dev |-> dev, ok |-> ok, mode |-> mode]

(* Platform syscalls.  Each fails on a descriptor that is no terminal, and *)
(* may fail on a terminal when the environment makes it fail (envOk).      *)

\* termios::tcgetattr(raw_fd), line 170
tcgetattr(tm, raw_fd, envOk) ==
  LET ok == raw_fd \in Terminals /\ envOk IN
    [ok |-> ok,
     mode |-> IF ok THEN Some(tm[raw_fd]) ELSE None,
     log |-> SysLog("tcgetattr", raw_fd, ok, None)]

\* termios::tcsetattr(raw_fd, TCSADRAIN, &mode), lines 189 and 210
tcsetattr(tm, raw_fd, mode, envOk) ==
  LET ok == raw_fd \in Terminals /\ envOk IN
    [ok |-> ok,
     term |-> IF ok THEN [tm EXCEPT ![raw_fd] = mode] ELSE tm,
     log |-> SysLog("tcsetattr", raw_fd, ok, Some(mode))]

\* consoleapi::GetConsoleMode(handle, &mut original_mode), line 123
GetConsoleMode(tm, dev, envOk) ==
  LET ok == dev \in Terminals /\ envOk IN
    [ok |-> ok,
     mode |-> IF ok THEN Some(tm[dev]) ELSE None,
     log |-> SysLog("GetConsoleMode", dev, ok, None)]

\* consoleapi::SetConsoleMode(handle, new_mode), line 133
SetConsoleMode(tm, dev, new_mode, envOk) ==
  LET ok == dev \in Terminals /\ envOk IN
    [ok |-> ok,
     term |-> IF ok THEN [tm EXCEPT ![dev] = new_mode] ELSE tm,
     log |-> SysLog("SetConsoleMode", dev, ok, Some(new_mode))]

-----------------------------------------------------------------------------
(* op_set_raw, #[cfg(unix)], lines 139-215                                 *)

\* write through the `&mut metadata.mode` / `&mut metadata.tty.mode`
\* reference that lines 149-163 and 193-207 bind to maybe_tty_mode
write_tty_mode(table, rid, new) ==
  IF table[rid].kind = "Stdin"
  THEN [table EXCEPT ![rid].mode = new]
  ELSE [table EXCEPT
          ![rid].slot = Some([unwrap(@) EXCEPT !.mode = new])]

\* lines 165-190, once raw_fd and maybe_tty_mode are bound
enable_raw_recapture(table, tm, rid, raw_fd, maybe_tty_mode, env) ==
  \* variant without the "Already raw. Skip." test of lines 165-168
  LET got == tcgetattr(tm, raw_fd, env.getOk) IN
    IF ~got.ok
    THEN Ret(table, tm, "OsError", <<got.log>>)
    ELSE
      LET original_mode == unwrap(got.mode)
          saved == write_tty_mode(table, rid, Some(original_mode))
          set == tcsetattr(tm, raw_fd, make_raw(original_mode), env.setOk)
      IN
        IF ~set.ok
        THEN Ret(saved, tm, "OsError", <<got.log, set.log>>)
        ELSE Ret(saved, set.term, "Ok", <<got.log, set.log>>)

enable_raw(table, tm, rid, raw_fd, maybe_tty_mode, env) ==
  IF is_some(maybe_tty_mode)
  THEN \* Already raw. Skip.
       Ret(table, tm, "Ok", <<>>)
  ELSE
    LET got == tcgetattr(tm, raw_fd, env.getOk) IN
      IF ~got.ok
      THEN Ret(table, tm, "OsError", <<got.log>>)              \* `?`, line 170
      ELSE
        LET original_mode == unwrap(got.mode)
            \* Save original mode (line 173, before the mode is applied).
            saved == write_tty_mode(table, rid, Some(original_mode))
            set == tcsetattr(tm, raw_fd, make_raw(original_mode), env.setOk)
        IN
          IF ~set.ok
          THEN Ret(saved, tm, "OsError", <<got.log, set.log>>) \* `?`, line 189
          ELSE Ret(saved, set.term, "Ok", <<got.log, set.log>>)

\* lines 209-213, once raw_fd and maybe_tty_mode are bound
disable_raw_peek(table, tm, rid, raw_fd, maybe_tty_mode, env) ==
  \* variant that reads the snapshot without taking it out of the resource
  IF is_some(maybe_tty_mode)
  THEN
    LET set == tcsetattr(tm, raw_fd, unwrap(maybe_tty_mode), env.setOk) IN
      IF ~set.ok
      THEN Ret(table, tm, "OsError", <<set.log>>)
      ELSE Ret(table, set.term, "Ok", <<set.log>>)
  ELSE Ret(table, tm, "Ok", <<>>)

disable_raw(table, tm, rid, raw_fd, maybe_tty_mode, env) ==
  IF is_some(maybe_tty_mode)
  THEN
    LET taken == write_tty_mode(table, rid, None)                \* take()
        set == tcsetattr(tm, raw_fd, unwrap(maybe_tty_mode), env.setOk)
    IN
      IF ~set.ok
      THEN Ret(taken, tm, "OsError", <<set.log>>)              \* `?`, line 210
      ELSE Ret(taken, set.term, "Ok", <<set.log>>)
  ELSE Ret(table, tm, "Ok", <<>>)


\* lines 143-215: resolve the resource, then enable or restore
op_set_raw_unix_ignore_vacated(table, tm, rid, is_raw, env) ==
  \* variant that treats a vacated FsFile slot as nothing to do
  IF rid \notin DOMAIN table
  THEN Ret(table, tm, "BadResourceId", <<>>)
  ELSE
    LET resource == table[rid] IN
      CASE resource.kind = "Stdin" ->
             IF is_raw
             THEN enable_raw(table, tm, rid, StdinDev, resource.mode, env)
             ELSE disable_raw(table, tm, rid, StdinDev, resource.mode, env)
        [] resource.kind = "FsFile" /\ is_some(resource.slot) ->
             LET f == unwrap(resource.slot) IN
               IF is_raw
               THEN enable_raw(table, tm, rid, f.file, f.mode, env)
               ELSE disable_raw(table, tm, rid, f.file, f.mode, env)
        [] resource.kind = "FsFile" /\ ~is_some(resource.slot) ->
             Ret(table, tm, "Ok", <<>>)
        [] OTHER ->
             IF is_raw
             THEN Ret(table, tm, "NotSupported", <<>>)
             ELSE Ret(table, tm, "BadResourceId", <<>>)

op_set_raw_unix_global_mode(table, tm, rid, is_raw, env) ==
  \* variant that keeps one saved mode for the process, in resource 0
  IF rid \notin DOMAIN table
  THEN Ret(table, tm, "BadResourceId", <<>>)
  ELSE
    LET resource == table[rid] IN
      CASE resource.kind = "Stdin" ->
             IF is_raw
             THEN enable_raw(table, tm, 0, StdinDev, table[0].mode, env)
             ELSE disable_raw(table, tm, 0, StdinDev, table[0].mode, env)
        [] resource.kind = "FsFile" /\ is_some(resource.slot) ->
             LET f == unwrap(resource.slot) IN
               IF is_raw
               THEN enable_raw(table, tm, 0, f.file, table[0].mode, env)
               ELSE disable_raw(table, tm, 0, f.file, table[0].mode, env)
        [] resource.kind = "FsFile" /\ ~is_some(resource.slot) ->
             Ret(table, tm, "ResourceUnavailable", <<>>)
        [] OTHER ->
             IF is_raw
             THEN Ret(table, tm, "NotSupported", <<>>)
             ELSE Ret(table, tm, "BadResourceId", <<>>)

op_set_raw_unix(table, tm, rid, is_raw, env) ==
  IF rid \notin DOMAIN table
  THEN Ret(table, tm, "BadResourceId", <<>>)                     \* line 145
  ELSE
    LET resource == table[rid] IN
      CASE resource.kind = "Stdin" ->
             IF is_raw
             THEN enable_raw(table, tm, rid, StdinDev, resource.mode, env)
             ELSE disable_raw(table, tm, rid, StdinDev, resource.mode, env)
        [] resource.kind = "FsFile" /\ is_some(resource.slot) ->
             LET f == unwrap(resource.slot) IN
               IF is_raw
               THEN enable_raw(table, tm, rid, f.file, f.mode, env)
               ELSE disable_raw(table, tm, rid, f.file, f.mode, env)
        [] resource.kind = "FsFile" /\ ~is_some(resource.slot) ->
             Ret(table, tm, "ResourceUnavailable", <<>>)         \* 158, 202
        [] OTHER ->
             IF is_raw
             THEN Ret(table, tm, "NotSupported", <<>>)           \* line 161
             ELSE Ret(table, tm, "BadResourceId", <<>>)          \* line 205

-----------------------------------------------------------------------------
(* op_set_raw, #[cfg(windows)], lines 72-138                               *)

\* lines 117-137, once the handle is resolved and the table is as the
\* resolution left it
set_console_raw(table, tm, dev, is_raw, env) ==
  CASE env.handle = "invalid" -> Ret(table, tm, "OsError", <<>>)     \* 118
    [] env.handle = "null" -> Ret(table, tm, "NullHandle", <<>>)     \* 120
    [] OTHER ->
         LET got == GetConsoleMode(tm, dev, env.getOk) IN
           IF ~got.ok
           THEN Ret(table, tm, "OsError", <<got.log>>)               \* 126
           ELSE
             LET original_mode == unwrap(got.mode)
                 new_mode == IF is_raw
                             THEN original_mode \ RAW_MODE_MASK
                             ELSE original_mode \cup RAW_MODE_MASK
                 set == SetConsoleMode(tm, dev, new_mode, env.setOk)
             IN
               IF ~set.ok
               THEN Ret(table, tm, "OsError", <<got.log, set.log>>)  \* 134
               ELSE Ret(table, set.term, "Ok", <<got.log, set.log>>)

\* lines 78-138
op_set_raw_windows_leak_slot(table, tm, rid, is_raw, env) ==
  \* variant that does not put the file back when try_into_std fails
  IF rid \notin DOMAIN table
  THEN Ret(table, tm, "BadResourceId", <<>>)
  ELSE
    LET resource == table[rid] IN
      CASE resource.kind = "Stdin" ->
             set_console_raw(table, tm, StdinDev, is_raw, env)
        [] resource.kind = "FsFile" /\ is_some(resource.slot) ->
             LET file_metadata == unwrap(resource.slot)
                 taken == [table EXCEPT ![rid].slot = None]
                 put_back == [taken EXCEPT ![rid].slot = Some(file_metadata)]
             IN
               IF env.intoStdOk
               THEN set_console_raw(put_back, tm, file_metadata.file,
                                    is_raw, env)
               ELSE Ret(taken, tm, "ResourceUnavailable", <<>>)
        [] resource.kind = "FsFile" /\ ~is_some(resource.slot) ->
             Ret(table, tm, "ResourceUnavailable", <<>>)
        [] OTHER ->
             Ret(table, tm, "BadResourceId", <<>>)

op_set_raw_windows(table, tm, rid, is_raw, env) ==
  IF rid \notin DOMAIN table
  THEN Ret(table, tm, "BadResourceId", <<>>)                     \* line 80
  ELSE
    LET resource == table[rid] IN
      CASE resource.kind = "Stdin" ->
             set_console_raw(table, tm, StdinDev, is_raw, env)
        [] resource.kind = "FsFile" /\ is_some(resource.slot) ->
             LET file_metadata == unwrap(resource.slot)
                 \* option_file_metadata.take(), line 88
                 taken == [table EXCEPT ![rid].slot = None]
                 \* lines 95-96 and 103-104
                 put_back == [taken EXCEPT ![rid].slot = Some(file_metadata)]
             IN
               IF env.intoStdOk
               THEN set_console_raw(put_back, tm, file_metadata.file,
                                    is_raw, env)
               ELSE \* an operation is in flight on the tokio file
                    Ret(put_back, tm, "ResourceUnavailable", <<>>) \* 105
        [] resource.kind = "FsFile" /\ ~is_some(resource.slot) ->
             Ret(table, tm, "ResourceUnavailable", <<>>)         \* line 109
        [] OTHER ->
             Ret(table, tm, "BadResourceId", <<>>)               \* line 113

-----------------------------------------------------------------------------
(* op_set_raw, lines 56-216                                                *)

\* State::check_unstable (line 62 and line 275): whether the call may go on
check_unstable(gate) == gate

\* serde_json::from_value(args), lines 63, 229 and 276
from_value(args) ==
  IF args.wellformed THEN Some([rid |-> args.rid, mode |-> args.mode])
  ELSE None

op_set_raw_ungated(plat, gate, table, tm, args, env) ==
  \* variant without the check_unstable call of line 62
  LET parsed == from_value(args) IN
    IF ~is_some(parsed)
    THEN Ret(table, tm, "InvalidArgs", <<>>)
    ELSE
      LET rid == unwrap(parsed).rid
          is_raw == unwrap(parsed).mode
      IN
        IF plat = "windows"
        THEN op_set_raw_windows(table, tm, rid, is_raw, env)
        ELSE op_set_raw_unix(table, tm, rid, is_raw, env)

op_set_raw(plat, gate, table, tm, args, env) ==
  IF ~check_unstable(gate)
  THEN Ret(table, tm, "FeatureDisabled", <<>>)
  ELSE
    LET parsed == from_value(args) IN
      IF ~is_some(parsed)
      THEN Ret(table, tm, "InvalidArgs", <<>>)
      ELSE
        LET rid == unwrap(parsed).rid
            is_raw == unwrap(parsed).mode
        IN
          IF plat = "windows"
          THEN op_set_raw_windows(table, tm, rid, is_raw, env)
          ELSE op_set_raw_unix(table, tm, rid, is_raw, env)


-----------------------------------------------------------------------------
(* super::io::std_file_resource(resource_table, rid, f): the resolve /     *)
(* release pairing used by the queries.  f is called with Ok(std_file) for *)
(* an FsFile whose slot is occupied and convertible, and with              *)
(* Err(resource) for a resource of any other kind.  The closure f is a     *)
(* function over ClosureArgs.                                              *)

FRet(result, isatty, size, sys) ==
  [result |-> result, isatty |-> isatty, size |-> size, sys |-> sys]

\* what f may be called with
ClosureArgs == [ok : BOOLEAN, file : Files, kind : {"Stdin", "FsFile", "Other"}]

std_file_resource(table, tm, rid, env, f) ==
  IF rid \notin DOMAIN table
  THEN Ret(table, tm, "BadResourceId", <<>>)
  ELSE
    LET resource == table[rid] IN
      CASE resource.kind = "FsFile" /\ is_some(resource.slot) ->
             LET file_metadata == unwrap(resource.slot)
                 taken == [table EXCEPT ![rid].slot = None]
                 put_back == [taken EXCEPT ![rid].slot = Some(file_metadata)]
             IN
               IF env.intoStdOk
               THEN LET r == f[[ok |-> TRUE, file |-> file_metadata.file,
                                kind |-> "FsFile"]]
                    IN [table |-> put_back, term |-> tm, result |-> r.result,
                        isatty |-> r.isatty, size |-> r.size, sys |-> r.sys]
               ELSE Ret(put_back, tm, "ResourceUnavailable", <<>>)
        [] resource.kind = "FsFile" /\ ~is_some(resource.slot) ->
             Ret(table, tm, "ResourceUnavailable", <<>>)
        [] OTHER ->
             LET r == f[[ok |-> FALSE, file |-> StdinDev,
                         kind |-> resource.kind]]
             IN [table |-> table, term |-> tm, result |-> r.result,
                 isatty |-> r.isatty, size |-> r.size, sys |-> r.sys]

-----------------------------------------------------------------------------
(* op_isatty, lines 223-256                                                *)

\* get_windows_handle, lines 24-37: the error, or "Ok"
get_windows_handle(handle) ==
  CASE handle = "invalid" -> "OsError"
    [] handle = "null" -> "NullHandle"
    [] OTHER -> "Ok"

\* the closure of lines 233-254
isatty_closure_std_only(plat, tm, env, r) ==
  \* variant whose last arm is unreachable!() as well: only std files and
  \* standard input are expected
  CASE r.ok /\ plat = "windows" ->
         IF get_windows_handle(env.handle) # "Ok"
         THEN FRet(get_windows_handle(env.handle), FALSE, NoSize, <<>>)
         ELSE LET got == GetConsoleMode(tm, r.file, env.getOk) IN
                FRet("Ok", got.ok, NoSize, <<got.log>>)
    [] r.ok /\ plat # "windows" ->
         FRet("Ok", r.file \in Terminals, NoSize,
              <<SysLog("isatty", r.file, r.file \in Terminals, None)>>)
    [] ~r.ok /\ r.kind = "Stdin" ->
         FRet("Ok", StdinDev \in Terminals, NoSize,
              <<SysLog("atty", StdinDev, StdinDev \in Terminals, None)>>)
    [] OTHER -> FRet("Panic", FALSE, NoSize, <<>>)

isatty_closure(plat, tm, env, r) ==
  CASE r.ok /\ plat = "windows" ->
         IF get_windows_handle(env.handle) # "Ok"
         THEN FRet(get_windows_handle(env.handle), FALSE, NoSize, <<>>)
         ELSE \* If I cannot get mode out of console, it is not a console.
              LET got == GetConsoleMode(tm, r.file, env.getOk) IN
                FRet("Ok", got.ok, NoSize, <<got.log>>)
    [] r.ok /\ plat # "windows" ->
         FRet("Ok", r.file \in Terminals, NoSize,
              <<SysLog("isatty", r.file, r.file \in Terminals, None)>>)
    [] ~r.ok /\ r.kind = "Stdin" ->
         \* atty::is(atty::Stream::Stdin)
         FRet("Ok", StdinDev \in Terminals, NoSize,
              <<SysLog("atty", StdinDev, StdinDev \in Terminals, None)>>)
    [] ~r.ok /\ r.kind = "FsFile" ->
         FRet("Panic", FALSE, NoSize, <<>>)          \* unreachable!(), 251
    [] OTHER -> FRet("Ok", FALSE, NoSize, <<>>)                   \* line 253

op_isatty_fresh_metadata(plat, table, tm, args, env) ==
  \* variant that leaves the queried resource with default metadata
  LET parsed == from_value(args) IN
    IF ~is_some(parsed)
    THEN Ret(table, tm, "InvalidArgs", <<>>)
    ELSE
      LET rid == unwrap(parsed).rid
          out == std_file_resource(table, tm, rid, env,
                                   [r \in ClosureArgs |->
                                      isatty_closure(plat, tm, env, r)])
      IN
        IF rid \in DOMAIN table /\ table[rid].kind = "Stdin"
        THEN [out EXCEPT !.table = write_tty_mode(out.table, rid, None)]
        ELSE out

op_isatty(plat, table, tm, args, env) ==
  LET parsed == from_value(args) IN
    IF ~is_some(parsed)
    THEN Ret(table, tm, "InvalidArgs", <<>>)
    ELSE std_file_resource(table, tm, unwrap(parsed).rid, env,
                           [r \in ClosureArgs |->
                              isatty_closure(plat, tm, env, r)])

-----------------------------------------------------------------------------
(* op_console_size, lines 269-328                                          *)

\* the closure of lines 279-325: GetConsoleScreenBufferInfo (line 290) or
\* ioctl(fd, TIOCGWINSZ) (line 312) on the file, "bad resource" otherwise
console_size_closure(plat, env, r) ==
  IF r.ok
  THEN
    LET call == IF plat = "windows" THEN "GetConsoleScreenBufferInfo"
                ELSE "ioctl(TIOCGWINSZ)"
        ok == r.file \in Terminals /\ env.getOk
    IN
      IF ~ok
      THEN FRet("OsError", FALSE, NoSize, <<SysLog(call, r.file, FALSE, None)>>)
      ELSE FRet("Ok", FALSE, WinSize[r.file],
                <<SysLog(call, r.file, TRUE, None)>>)
  ELSE FRet("BadResourceId", FALSE, NoSize, <<>>)                \* line 324

op_console_size(plat, gate, table, tm, args, env) ==
  IF ~check_unstable(gate)
  THEN Ret(table, tm, "FeatureDisabled", <<>>)
  ELSE
    LET parsed == from_value(args) IN
      IF ~is_some(parsed)
      THEN Ret(table, tm, "InvalidArgs", <<>>)
      ELSE std_file_resource(table, tm, unwrap(parsed).rid, env,
                             [r \in ClosureArgs |->
                                console_size_closure(plat, env, r)])


-----------------------------------------------------------------------------
(* The state machine.                                                      *)

\* what the environment decides during one call: whether the tokio file
\* converts to a std file (no operation in flight on it), the value of the
\* Windows handle, and whether the reading and the writing syscall succeed.
\* An outcome the op cannot come to consult is left at its default.
Envs(plat, op) ==
  { e \in [intoStdOk : BOOLEAN, handle : Handles,
            getOk : BOOLEAN, setOk : BOOLEAN] :
      /\ (plat = "unix" \/ op = "console_size") => e.handle = "valid"
      /\ (plat = "unix" /\ op = "set_raw") => e.intoStdOk
      /\ e.handle # "valid" => e.getOk
      /\ (op # "set_raw" \/ ~e.getOk) => e.setOk }

Malformed == [wellformed |-> FALSE, rid |-> 0, mode |-> FALSE]

\* the JSON arguments a caller may pass to op_set_raw: {rid, mode}, or a
\* malformed value
SetRawArgs ==
  [wellformed : {TRUE}, rid : RidArgs, mode : BOOLEAN] \cup {Malformed}

\* and to op_isatty and op_console_size: {rid}, or a malformed value
RidOnlyArgs ==
  [wellformed : {TRUE}, rid : RidArgs, mode : {FALSE}] \cup {Malformed}

NoCall ==
  [op |-> "none", args |-> Malformed, result |-> "Ok", isatty |-> FALSE,
   size |-> NoSize, sys |-> <<>>]

Call(op, args, out) ==
  [op |-> op, args |-> args, result |-> out.result, isatty |-> out.isatty,
   size |-> out.size, sys |-> out.sys]

\* the saved mode a resource of the table holds (None while its slot is vacated)
SavedMode(table, rid) ==
  CASE rid \notin DOMAIN table -> None
    [] table[rid].kind = "Stdin" -> table[rid].mode
    [] table[rid].kind = "FsFile" /\ is_some(table[rid].slot) ->
         unwrap(table[rid].slot).mode
    [] OTHER -> None

\* set_raw can bind a descriptor and a saved-mode slot for this rid
Resolves(table, rid) ==
  /\ rid \in DOMAIN table
  /\ \/ table[rid].kind = "Stdin"
     \/ table[rid].kind = "FsFile" /\ is_some(table[rid].slot)

\* the device a resolvable resource's descriptor refers to
DevOf(table, rid) ==
  IF table[rid].kind = "Stdin" THEN StdinDev ELSE unwrap(table[rid].slot).file

Init ==
  /\ platform \in {"unix", "windows"}
  /\ unstable \in BOOLEAN
  /\ \E file \in Files : resource_table = InitTable(file)
  /\ inflight = [rid \in Rids |-> None]
  /\ term \in [Terminals -> IF platform = "unix" THEN UnixInitModes
                            ELSE WindowsInitModes]
  /\ last = NoCall
  /\ hist = [orig |-> term, oserr |-> FALSE, users |-> {}, entered |-> {},
             observed |-> [rid \in Rids |-> None]]

\* the history after a set_raw call with outcome `out`:
\*   oserr     some set_raw call has failed in the OS
\*   users     the resources set_raw has resolved a descriptor for
\*   entered   the resources an enable_raw call has succeeded on
\*   observed  for a resource holding a saved mode, the terminal mode just
\*             before its most recent successful change into raw mode
Record(args, out) ==
  IF ~args.wellformed \/ out.result \notin {"Ok", "OsError", "NullHandle"}
  THEN hist
  ELSE
    LET rid == args.rid
        dev == DevOf(resource_table, rid)
    IN
      [hist EXCEPT
         !.oserr = @ \/ out.result # "Ok",
         !.users = @ \cup {rid},
         !.entered = IF args.mode /\ out.result = "Ok" THEN @ \cup {rid} ELSE @,
         !.observed =
            [@ EXCEPT ![rid] =
               CASE ~is_some(SavedMode(out.table, rid)) -> None
                 [] args.mode /\ out.result = "Ok" -> Some(term[dev])
                 [] OTHER -> @]]

SetRaw ==
  \E args \in SetRawArgs, env \in Envs(platform, "set_raw") :
    LET out == op_set_raw(platform, unstable, resource_table, term, args, env)
    IN
      /\ resource_table' = out.table
      /\ term' = out.term
      /\ last' = Call("set_raw", args, out)
      /\ hist' = Record(args, out)
      /\ UNCHANGED <<platform, unstable, inflight>>

IsAtty ==
  \E args \in RidOnlyArgs, env \in Envs(platform, "isatty") :
    LET out == op_isatty(platform, resource_table, term, args, env) IN
      /\ resource_table' = out.table
      /\ term' = out.term
      /\ last' = Call("isatty", args, out)
      /\ UNCHANGED <<platform, unstable, inflight, hist>>

ConsoleSize ==
  \E args \in RidOnlyArgs, env \in Envs(platform, "console_size") :
    LET out == op_console_size(platform, unstable, resource_table, term,
                               args, env)
    IN
      /\ resource_table' = out.table
      /\ term' = out.term
      /\ last' = Call("console_size", args, out)
      /\ UNCHANGED <<platform, unstable, inflight, hist>>

\* an asynchronous read or write takes the file out of its slot ...
AsyncCheckout ==
  \E rid \in Rids :
    /\ resource_table[rid].kind = "FsFile"
    /\ is_some(resource_table[rid].slot)
    /\ inflight' = [inflight EXCEPT ![rid] = resource_table[rid].slot]
    /\ resource_table' = [resource_table EXCEPT ![rid].slot = None]
    /\ last' = [NoCall EXCEPT !.op = "async_checkout", !.args.rid = rid]
    /\ UNCHANGED <<platform, unstable, term, hist>>

\* ... and puts it back when it completes
AsyncReturn ==
  \E rid \in Rids :
    /\ is_some(inflight[rid])
    /\ resource_table' = [resource_table EXCEPT ![rid].slot = inflight[rid]]
    /\ inflight' = [inflight EXCEPT ![rid] = None]
    /\ last' = [NoCall EXCEPT !.op = "async_return", !.args.rid = rid]
    /\ UNCHANGED <<platform, unstable, term, hist>>

Next == SetRaw \/ IsAtty \/ ConsoleSize \/ AsyncCheckout \/ AsyncReturn

Spec == Init /\ [][Next]_vars

\* the POSIX build alone
InitUnix == Init /\ platform = "unix"

SpecUnix == InitUnix /\ [][Next]_vars


-----------------------------------------------------------------------------
(* Properties.                                                             *)

\* the step is a call of `op` with well-formed arguments naming `rid`
Step(op, rid) ==
  /\ last'.op = op
  /\ last'.args.wellformed
  /\ last'.args.rid = rid

\* the step is set_raw(rid, mode) past the unstable gate
SetRawStep(rid, mode) ==
  /\ Step("set_raw", rid)
  /\ last'.args.mode = mode
  /\ unstable

\* the last call was set_raw(rid, mode) past the unstable gate
SetRawWas(rid, mode) ==
  /\ last.op = "set_raw"
  /\ last.args.wellformed
  /\ last.args.rid = rid
  /\ last.args.mode = mode
  /\ unstable

\* a mode is raw: on POSIX building its raw variant changes nothing, on
\* Windows none of the RAW_MODE_MASK bits is set
IsRawMode(m) ==
  IF platform = "windows" THEN m \cap RAW_MODE_MASK = {} ELSE make_raw(m) = m

\* the syscalls of the last call that wrote a terminal mode
ModeWrites(sys) ==
  { i \in 1..Len(sys) : sys[i].call \in {"tcsetattr", "SetConsoleMode"} }

\* C1: round trip.  When set_raw has been used on a single resource only,
\* no call has failed in the OS, at least one enable_raw has succeeded and
\* the last call is a successful disable_raw, the terminal mode equals the
\* mode the terminal had at the start.
C1_RoundTrip ==
  \A rid \in Rids :
    ( /\ SetRawWas(rid, FALSE)
      /\ last.result = "Ok"
      /\ ~hist.oserr
      /\ hist.users \subseteq {rid}
      /\ rid \in hist.entered )
    => term[DevOf(resource_table, rid)] = hist.orig[DevOf(resource_table, rid)]

C3_DisableCookedNoOp ==
  [][\A rid \in Rids :
       ( /\ SetRawStep(rid, FALSE)
         /\ Resolves(resource_table, rid)
         /\ ~is_some(SavedMode(resource_table, rid))
         /\ last'.result = "Ok" )
       => /\ ModeWrites(last'.sys) = {}
          /\ term' = term
          /\ resource_table' = resource_table
    ]_vars

\* C4: after a set_raw call on a resource on a terminal, the resource holds
\* a saved mode if and only if the terminal is in raw mode, and a saved mode
\* it holds is the mode observed just before the most recent change into
\* raw mode.
C4_StateInvariant ==
  \A rid \in Rids, mode \in BOOLEAN :
    ( /\ SetRawWas(rid, mode)
      /\ Resolves(resource_table, rid)
      /\ DevOf(resource_table, rid) \in Terminals )
    => /\ is_some(SavedMode(resource_table, rid))
          <=> IsRawMode(term[DevOf(resource_table, rid)])
       /\ is_some(SavedMode(resource_table, rid))
          => SavedMode(resource_table, rid) = hist.observed[rid]

\* C5: an enable_raw call on a resource holding no saved mode in which a
\* syscall fails returns the OS failure and leaves the resource without a
\* saved mode.
C5_FailedEnableStaysCooked ==
  [][\A rid \in Rids :
       ( /\ SetRawStep(rid, TRUE)
         /\ Resolves(resource_table, rid)
         /\ ~is_some(SavedMode(resource_table, rid))
         /\ \E i \in 1..Len(last'.sys) : ~last'.sys[i].ok )
       => /\ last'.result = "OsError"
          /\ ~is_some(SavedMode(resource_table', rid))
    ]_vars

\* C6: a disable_raw call on a resource holding a saved mode makes exactly
\* one syscall, which writes that saved mode, and leaves the resource
\* without a saved mode; when the write succeeds the call returns Ok and the
\* terminal has the saved mode, when it fails the call returns the OS
\* failure and the terminal mode is unchanged.
C6_SnapshotConsumedOnce ==
  [][\A rid \in Rids :
       ( SetRawStep(rid, FALSE) /\ is_some(SavedMode(resource_table, rid)) )
       => LET dev == DevOf(resource_table, rid)
              mode == unwrap(SavedMode(resource_table, rid))
          IN
            /\ ~is_some(SavedMode(resource_table', rid))
            /\ Resolves(resource_table', rid)
            /\ Len(last'.sys) = 1
            /\ ModeWrites(last'.sys) = {1}
            /\ last'.sys[1].mode = Some(mode)
            /\ last'.sys[1].dev = dev
            /\ IF last'.sys[1].ok
               THEN last'.result = "Ok" /\ term' = [term EXCEPT ![dev] = mode]
               ELSE last'.result = "OsError" /\ term' = term
    ]_vars

\* C6 witness: a disable_raw on standard input has just failed to restore:
\* OS failure, one failed write, the terminal still raw, no saved mode left.
C6_Witness ==
  /\ SetRawWas(0, FALSE)
  /\ last.result = "OsError"
  /\ Len(last.sys) = 1
  /\ last.sys[1].call = "tcsetattr"
  /\ ~last.sys[1].ok
  /\ ~is_some(SavedMode(resource_table, 0))
  /\ IsRawMode(term[StdinDev])


\* C7: restorability under interleaving.  When no set_raw call has failed
\* in the OS, some resource has entered raw mode, and every resource that
\* entered raw mode has been disabled again (it is in its slot and holds no
\* saved mode), every terminal has the mode it had at the start.
C7_RestoredAfterInterleaving ==
  ( /\ ~hist.oserr
    /\ hist.entered # {}
    /\ \A rid \in hist.entered :
         Resolves(resource_table, rid)
           /\ ~is_some(SavedMode(resource_table, rid)) )
  => term = hist.orig

\* C8: the outcome of a set_raw call on one resource neither depends on nor
\* changes the saved mode of another resource: with the other resource's
\* saved mode replaced (absent for present, the current terminal mode for
\* absent) the call returns the same result, makes the same syscalls and
\* leaves the same terminal modes and the same resources, the other
\* resource being as it was before the call in both runs.
C8_PerResource ==
  \A args \in SetRawArgs, env \in Envs(platform, "set_raw") :
    \A other \in Rids \ {args.rid} :
      ( args.wellformed /\ Resolves(resource_table, other) )
      => LET alt == IF is_some(SavedMode(resource_table, other)) THEN None
                    ELSE Some(term[StdinDev])
             table2 == write_tty_mode(resource_table, other, alt)
             out == op_set_raw(platform, unstable, resource_table, term,
                               args, env)
             out2 == op_set_raw(platform, unstable, table2, term, args, env)
         IN
           /\ out.table[other] = resource_table[other]
           /\ out2.table[other] = table2[other]
           /\ \A rid \in Rids \ {other} : out2.table[rid] = out.table[rid]
           /\ out2.result = out.result
           /\ out2.sys = out.sys
           /\ out2.term = out.term

\* C8 witness: standard input and the open file are on the same terminal;
\* enable_raw has just succeeded on the file with its own capture while
\* standard input holds a different saved mode.
C8_Witness ==
  /\ SetRawWas(1, TRUE)
  /\ last.result = "Ok"
  /\ Len(last.sys) = 2
  /\ Resolves(resource_table, 1)
  /\ DevOf(resource_table, 1) = StdinDev
  /\ is_some(SavedMode(resource_table, 0))
  /\ is_some(SavedMode(resource_table, 1))
  /\ SavedMode(resource_table, 0) # SavedMode(resource_table, 1)

\* the step is past the unstable gate, which op_isatty does not have
PastGate(op) == op = "isatty" \/ unstable

QueryOps == {"set_raw", "isatty", "console_size"}

\* C9: a call of set_raw, is_tty or console_size on an open file whose slot
\* is vacated returns ResourceUnavailable, makes no syscall and leaves the
\* table (the slot vacated, the resource present) and the terminal modes
\* unchanged.
C9_Unavailable ==
  [][\A rid \in Rids, op \in QueryOps :
       ( /\ Step(op, rid)
         /\ PastGate(op)
         /\ resource_table[rid].kind = "FsFile"
         /\ ~is_some(resource_table[rid].slot) )
       => /\ last'.result = "ResourceUnavailable"
          /\ last'.sys = <<>>
          /\ resource_table' = resource_table
          /\ inflight' = inflight
          /\ term' = term
    ]_vars

\* C9 witness: enable_raw has just been refused on the open file while an
\* asynchronous operation holds its descriptor.
C9_Witness ==
  /\ SetRawWas(1, TRUE)
  /\ last.result = "ResourceUnavailable"
  /\ ~is_some(resource_table[1].slot)
  /\ is_some(inflight[1])

\* C10: a call of set_raw, is_tty or console_size on an open file whose slot
\* is occupied leaves the slot occupied with the same file; the metadata is
\* the same too, except for the saved mode that set_raw writes on POSIX.
C10_BorrowReleased ==
  [][\A rid \in Rids, op \in QueryOps :
       ( /\ Step(op, rid)
         /\ resource_table[rid].kind = "FsFile"
         /\ is_some(resource_table[rid].slot) )
       => /\ is_some(resource_table'[rid].slot)
          /\ unwrap(resource_table'[rid].slot).file
               = unwrap(resource_table[rid].slot).file
          /\ (op # "set_raw" \/ platform = "windows")
               => resource_table'[rid] = resource_table[rid]
          /\ inflight' = inflight
    ]_vars

\* C10 witness: console_size has just failed with an OS failure on an open
\* file that is no terminal, and the file is in its slot.
C10_Witness ==
  /\ last.op = "console_size"
  /\ last.args.wellformed
  /\ last.args.rid = 1
  /\ last.result = "OsError"
  /\ is_some(resource_table[1].slot)
  /\ unwrap(resource_table[1].slot).file \notin Terminals


Was(op, rid) ==
  /\ last.op = op
  /\ last.args.wellformed
  /\ last.args.rid = rid

\* C12: a set_raw call past the gate, enable or disable, on the resource of
\* kind Other returns the unsupported-kind failure (not the failure a
\* missing rid gets).
C12_UnsupportedKind ==
  \A mode \in BOOLEAN :
    ( SetRawWas(2, mode) /\ resource_table[2].kind = "Other" )
    => last.result = "NotSupported"

\* C13: is_tty on the resource of kind Other returns false without error
\* and without a syscall; console_size on it, past the gate, returns the
\* bad-resource failure; neither panics.
C13_QueriesOnOther ==
  /\ ( Was("isatty", 2) /\ resource_table[2].kind = "Other" )
     => /\ last.result = "Ok"
        /\ last.isatty = FALSE
        /\ last.sys = <<>>
  /\ ( Was("console_size", 2) /\ resource_table[2].kind = "Other" /\ unstable )
     => /\ last.result = "BadResourceId"
        /\ last.sys = <<>>
  /\ last.result # "Panic"

\* C13 witness: is_tty has just answered false for the resource of kind
\* Other.
C13_Witness ==
  /\ Was("isatty", 2)
  /\ resource_table[2].kind = "Other"
  /\ last.result = "Ok"
  /\ ~last.isatty

\* C14: console_size on standard input, past the gate, returns the size of
\* the terminal or an OS failure, never the bad-resource failure.
C14_ConsoleSizeOnStdin ==
  ( Was("console_size", 0) /\ resource_table[0].kind = "Stdin" /\ unstable )
  => \/ last.result = "Ok" /\ last.size = WinSize[StdinDev]
     \/ last.result = "OsError"


\* C15: every terminal mode a disable_raw call applies (writes with
\* success) is the saved mode the resource held when the call began, the
\* snapshot an earlier enable_raw on that resource captured.
C15_OnlyRestored ==
  [][\A rid \in Rids :
       SetRawStep(rid, FALSE)
       => \A i \in ModeWrites(last'.sys) :
            last'.sys[i].ok
            => /\ is_some(SavedMode(resource_table, rid))
               /\ last'.sys[i].mode = SavedMode(resource_table, rid)
    ]_vars

\* C16: on POSIX, the mode a successful enable_raw writes for a resource
\* holding no saved mode is the mode it read with BRKINT, ICRNL, INPCK,
\* ISTRIP, IXON, ECHO, ICANON, IEXTEN and ISIG cleared, both CSIZE bits
\* (CS8) set, VMIN 1 and VTIME 0, every other flag and control character
\* as read; it becomes the terminal's mode, and the mode read is the one
\* saved.
C16_RawConstruction ==
  [][\A rid \in Rids :
       ( /\ platform = "unix"
         /\ SetRawStep(rid, TRUE)
         /\ Resolves(resource_table, rid)
         /\ ~is_some(SavedMode(resource_table, rid))
         /\ last'.result = "Ok" )
       => LET dev == DevOf(resource_table, rid)
              read == term[dev]
              written == term'[dev]
          IN
            /\ Len(last'.sys) = 2
            /\ last'.sys[2].mode = Some(written)
            /\ written.input_flags =
                 read.input_flags
                   \ {"BRKINT", "ICRNL", "INPCK", "ISTRIP", "IXON"}
            /\ written.local_flags =
                 read.local_flags \ {"ECHO", "ICANON", "IEXTEN", "ISIG"}
            /\ written.control_flags =
                 read.control_flags \cup {"CSIZE0", "CSIZE1"}
            /\ written.control_chars.VMIN = 1
            /\ written.control_chars.VTIME = 0
            /\ written.control_chars.VINTR = read.control_chars.VINTR
            /\ SavedMode(resource_table', rid) = Some(read)
    ]_vars

\* C16 witness: enable_raw has just succeeded on standard input of a
\* terminal that started with ECHO, IEXTEN and one CSIZE bit off, parity on
\* and VMIN 4, VTIME 2.
C16_Witness ==
  /\ platform = "unix"
  /\ SetRawWas(0, TRUE)
  /\ last.result = "Ok"
  /\ Len(last.sys) = 2
  /\ hist.orig[StdinDev].control_chars.VMIN = 4
  /\ SavedMode(resource_table, 0) = Some(hist.orig[StdinDev])
  /\ "PARENB" \in term[StdinDev].control_flags
  /\ "ECHOE" \in term[StdinDev].local_flags
  /\ "ICANON" \notin term[StdinDev].local_flags

\* C17: an is_tty or console_size call, on any rid and with any result,
\* changes neither a terminal mode nor the table (so no saved mode), and
\* writes no mode.
C17_QueriesReadOnly ==
  [][( last'.op \in {"isatty", "console_size"} )
     => /\ term' = term
        /\ resource_table' = resource_table
        /\ inflight' = inflight
        /\ ModeWrites(last'.sys) = {}
    ]_vars

\* C17 witness: is_tty has just answered true for standard input while the
\* resource holds its saved mode and the terminal is raw.
C17_Witness ==
  /\ Was("isatty", 0)
  /\ last.result = "Ok"
  /\ last.isatty
  /\ SavedMode(resource_table, 0) = Some(hist.orig[StdinDev])
  /\ IsRawMode(term[StdinDev])
  /\ term # hist.orig

\* C18: when an enable_raw call on a resource on a terminal has returned
\* Ok, the terminal is in raw mode.
C18_EnableOkMeansRaw ==
  \A rid \in Rids :
    ( /\ SetRawWas(rid, TRUE)
      /\ last.result = "Ok"
      /\ Resolves(resource_table, rid) )
    => IsRawMode(term[DevOf(resource_table, rid)])

\* C19: a set_raw call past the gate on a rid it cannot resolve (missing,
\* of kind Other, or an open file with a vacated slot) fails with one of
\* the resolution failures; and a set_raw call that returns a resolution
\* failure has made no syscall and has changed neither a terminal mode nor
\* the table nor what is in flight.
C19_ResolveBeforeSyscall ==
  [][\A rid \in RidArgs :
       /\ ( SetRawStep(rid, last'.args.mode) /\ ~Resolves(resource_table, rid) )
          => last'.result
               \in {"BadResourceId", "NotSupported", "ResourceUnavailable"}
       /\ ( /\ SetRawStep(rid, last'.args.mode)
            /\ last'.result
                 \in {"BadResourceId", "NotSupported", "ResourceUnavailable"} )
          => /\ last'.sys = <<>>
             /\ term' = term
             /\ resource_table' = resource_table
             /\ inflight' = inflight
    ]_vars

\* C19 witness: enable_raw on the missing rid has just failed as an unknown
\* resource while standard input holds a saved mode and the terminal is
\* raw.
C19_Witness ==
  /\ SetRawWas(3, TRUE)
  /\ last.result = "BadResourceId"
  /\ is_some(SavedMode(resource_table, 0))
  /\ IsRawMode(term[StdinDev])

=============================================================================
